---- MODULE Spec2Model ----
(***************************************************************************)
(* Model of the per-connection session handler websocket_transcribe of     *)
(* src/main.py: handshake, streaming loop, exception handlers, final       *)
(* flush and transport close.  The recognition engine and the transport    *)
(* are external: each of their calls returns or raises nondeterministically.*)
(***************************************************************************)
EXTENDS Integers, Sequences, FiniteSets, TLC

VARIABLES
  pc,                    \* position of the handler coroutine
  recognizer,            \* <<>> for None, <<sample_rate>> once created
  participant_identity,
  room_id,
  exc,                   \* the exception bound in "except Exception as exc"
  frames,                \* messages received by the streaming loop, in order
  engine,                \* calls made on the recognizer, in order
  sent,                  \* calls of websocket.send_json, in order
  closes,                \* calls of websocket.close
  init_message,          \* <<>>, then <<the message the handshake received>>
  creations              \* calls of create_recognizer, in order

vars == <<pc, recognizer, participant_identity, room_id, exc,
          frames, engine, sent, closes, init_message, creations>>

(* ---------------- bounds ---------------- *)

\* number of frames the client sends after the handshake
MaxFrames == 3

(* ---------------- program constants ---------------- *)

SAMPLE_RATE_DEFAULT == 16000

\* Python's None, as a string no payload uses
NoneVal == "<None>"

\* truthiness of an Optional[str]: None and "" are falsy
Truthy(text) == text \notin {NoneVal, ""}

(* ---------------- JSON ---------------- *)

\* json.loads on the text payloads the model uses.  ok = FALSE is a
\* json.JSONDecodeError; kind is the Python type of the decoded value;
\* the remaining fields are the object's members (NoneVal = member absent).
JsonErr == [ok |-> FALSE, kind |-> "err", type |-> NoneVal,
            sampleRate |-> NoneVal, participantIdentity |-> NoneVal, roomId |-> NoneVal]

JsonVal(k) == [ok |-> TRUE, kind |-> k, type |-> NoneVal,
               sampleRate |-> NoneVal, participantIdentity |-> NoneVal, roomId |-> NoneVal]

JsonLoads(text) ==
  CASE text = "{\"type\":\"stop\"}"   -> [JsonVal("dict") EXCEPT !.type = "stop"]
    [] text = "{\"type\":\"ping\"}"   -> [JsonVal("dict") EXCEPT !.type = "ping"]
    [] text = "{}"                    -> JsonVal("dict")
    [] text = "[\"stop\"]"            -> JsonVal("list")
    [] text = "5"                     -> JsonVal("int")
    [] text = "\"stop\""              -> JsonVal("str")
    [] text = "null"                  -> JsonVal("NoneType")
    [] text = "{\"sampleRate\":\"abc\"}" -> [JsonVal("dict") EXCEPT !.sampleRate = "'abc'"]
    [] text = "{\"sampleRate\":null}" -> [JsonVal("dict") EXCEPT !.sampleRate = "null"]
    [] text = "{\"sampleRate\":0}"    -> [JsonVal("dict") EXCEPT !.sampleRate = "0"]
    [] text = "{\"sampleRate\":8000,\"participantIdentity\":\"alice\",\"roomId\":\"r1\"}"
                                      -> [JsonVal("dict") EXCEPT !.sampleRate = "8000",
                                                                 !.participantIdentity = "alice",
                                                                 !.roomId = "r1"]
    [] OTHER                          -> JsonErr

\* dict.get(key, default) on a decoded object
Get(obj, key, default) == IF obj[key] = NoneVal THEN default ELSE obj[key]

\* int(x) on a decoded member: ok = FALSE is a ValueError or TypeError
IntOf(x) ==
  CASE x = "8000"  -> [ok |-> TRUE, n |-> 8000]
    [] x = "0"     -> [ok |-> TRUE, n |-> 0]
    [] OTHER       -> [ok |-> FALSE, n |-> 0]

\* line 45: int(init_payload.get("sampleRate", SAMPLE_RATE_DEFAULT))
SampleRateOf(payload) ==
  IF payload.sampleRate = NoneVal THEN [ok |-> TRUE, n |-> SAMPLE_RATE_DEFAULT]
  ELSE IntOf(payload.sampleRate)

(* ---------------- inbound frames ---------------- *)

Disconnect == [type |-> "websocket.disconnect", text |-> NoneVal, bytes |-> NoneVal]
TextFrame(t) == [type |-> "websocket.receive", text |-> t, bytes |-> NoneVal]
BytesFrame(b) == [type |-> "websocket.receive", text |-> NoneVal, bytes |-> b]
EmptyFrame == [type |-> "websocket.receive", text |-> NoneVal, bytes |-> NoneVal]

ControlTexts == {"{\"type\":\"stop\"}", "{\"type\":\"ping\"}", "{}",
                 "[\"stop\"]", "null", "{not json"}
AudioChunks == {"pcm1", "pcm2"}

HandshakeTexts == {"{}", "{\"sampleRate\":\"abc\"}",
                   "{\"sampleRate\":null}", "{\"sampleRate\":0}",
                   "{\"sampleRate\":8000,\"participantIdentity\":\"alice\",\"roomId\":\"r1\"}",
                   "[\"stop\"]", "{not json"}

StreamFrames == {Disconnect, EmptyFrame}
                  \cup {TextFrame(t) : t \in ControlTexts}
                  \cup {BytesFrame(b) : b \in AudioChunks}

HandshakeFrames == {Disconnect, BytesFrame("pcm1")}
                     \cup {TextFrame(t) : t \in HandshakeTexts}

(* ---------------- outcomes of external calls ---------------- *)

\* websocket.send_json / websocket.close: returns, raises WebSocketDisconnect,
\* or raises another exception
SendOutcomes == {"ok", "WebSocketDisconnect", "RuntimeError"}

\* outcome of feeding one chunk: which engine call raises (if any), whether
\* AcceptWaveform reports an utterance boundary, and the text/confidence of
\* the decoded Result() or PartialResult() (NoneVal = key absent)
FeedOutcomes ==
  {[raises |-> "AcceptWaveform", final |-> FALSE, text |-> NoneVal, confidence |-> NoneVal],
   [raises |-> "Result", final |-> TRUE, text |-> NoneVal, confidence |-> NoneVal],
   [raises |-> "PartialResult", final |-> FALSE, text |-> NoneVal, confidence |-> NoneVal]}
  \cup {[raises |-> "none", final |-> TRUE, text |-> t, confidence |-> "0.87"] :
          t \in {NoneVal, "hello world"}}
  \cup {[raises |-> "none", final |-> FALSE, text |-> t, confidence |-> NoneVal] :
          t \in {"", "hel"}}

\* outcome of FinalResult(): raises, or the decoded text (NoneVal = absent)
FlushOutcomes ==
  {[raises |-> TRUE, text |-> NoneVal, confidence |-> NoneVal]}
  \cup {[raises |-> FALSE, text |-> t, confidence |-> "0.5"] : t \in {NoneVal, "", "done"}}

(* ---------------- outbound events ---------------- *)

Segment(text, confidence, pid, rid) ==
  [type |-> "segment", text |-> text, confidence |-> confidence,
   participantIdentity |-> pid, roomId |-> rid]

Partial(text, pid, rid) ==
  [type |-> "partial", text |-> text, participantIdentity |-> pid, roomId |-> rid]

Error(message) == [type |-> "error", message |-> message]

\* one call of websocket.send_json: the message, whether the call returned,
\* and when it was made: the number of frames read and of engine calls made
\* so far, and the block that made it
SendRec(msg, outcome, at, calls, phase) ==
  [msg |-> msg, delivered |-> (outcome = "ok"), at |-> at, calls |-> calls,
   phase |-> phase]

\* one call on the recognizer: the method, its argument, whether it returned,
\* what it returned and the number of frames read when it was made
EngineRec(op, arg, ok, ret, at) ==
  [op |-> op, arg |-> arg, ok |-> ok, ret |-> ret, at |-> at]

\* variant: the new call is recorded ahead of the earlier ones
EmitFront(log, rec) == <<rec>> \o log

\* the transport log after one more send_json call
Emit(log, rec) == Append(log, rec)

(* ---------------- frame dispatch (lines 55-70) ---------------- *)

\* variant: a message without text is taken as audio without testing bytes
ClassifyNoBytesTest(message) ==
  IF message.type = "websocket.disconnect" THEN "disconnect"
  ELSE IF message.text # NoneVal THEN "text"
  ELSE "audio"

Classify(message) ==
  IF message.type = "websocket.disconnect" THEN "disconnect"
  ELSE IF message.text # NoneVal THEN "text"
  ELSE IF message.bytes = NoneVal THEN "none"
  ELSE "audio"

\* variant: a stop request is discarded like any other control frame
TextStepNoBreak(text) ==
  LET data == JsonLoads(text) IN
    IF ~data.ok THEN "continue"
    ELSE IF data.kind # "dict" THEN "AttributeError"
    ELSE "continue"

\* variant: the decode error is not caught
TextStepStrict(text) ==
  LET data == JsonLoads(text) IN
    IF ~data.ok THEN "JSONDecodeError"
    ELSE IF data.kind # "dict" THEN "AttributeError"
    ELSE IF Get(data, "type", NoneVal) = "stop" THEN "break"
    ELSE "continue"

\* lines 58-66: what a text payload does to the loop
TextStep(text) ==
  LET data == JsonLoads(text) IN
    IF ~data.ok THEN "continue"
    ELSE IF data.kind # "dict" THEN "AttributeError"
    ELSE IF Get(data, "type", NoneVal) = "stop" THEN "break"
    ELSE "continue"

(* ---------------- audio path (lines 75-110) ---------------- *)

\* the engine calls made for one chunk, in order
FeedCalls(bytes, o, at) ==
  <<EngineRec("AcceptWaveform", bytes, o.raises # "AcceptWaveform",
              IF o.raises = "AcceptWaveform" THEN NoneVal
              ELSE IF o.final THEN "True" ELSE "False", at)>>
  \o (IF o.raises = "AcceptWaveform" THEN <<>>
      ELSE IF o.final
        THEN <<EngineRec("Result", NoneVal, o.raises # "Result", o.text, at)>>
        ELSE <<EngineRec("PartialResult", NoneVal, o.raises # "PartialResult", o.text, at)>>)

\* variant: the partial is tested against None instead of for truthiness
ChunkEventsNotNone(o, pid, rid) ==
  IF o.raises # "none" THEN <<>>
  ELSE IF o.final
    THEN LET text == IF o.text = NoneVal THEN "" ELSE o.text IN
           IF Truthy(text) THEN <<Segment(text, o.confidence, pid, rid)>> ELSE <<>>
    ELSE LET partial == o.text IN
           IF partial # NoneVal THEN <<Partial(partial, pid, rid)>> ELSE <<>>

\* the events one chunk asks the transport to send (none when a call raised)
ChunkEvents(o, pid, rid) ==
  IF o.raises # "none" THEN <<>>
  ELSE IF o.final
    THEN LET text == IF o.text = NoneVal THEN "" ELSE o.text IN
           IF Truthy(text) THEN <<Segment(text, o.confidence, pid, rid)>> ELSE <<>>
    ELSE LET partial == o.text IN
           IF Truthy(partial) THEN <<Partial(partial, pid, rid)>> ELSE <<>>

\* variant: the final segment is sent whatever its text
FlushEventsAlways(f, pid, rid) ==
  IF f.raises THEN <<>>
  ELSE <<Segment(IF f.text = NoneVal THEN "" ELSE f.text, f.confidence, pid, rid)>>

\* variant: the flush result is dropped without a send
FlushEventsNone(f, pid, rid) == <<>>

\* the events the final flush asks the transport to send (lines 120-131)
FlushEvents(f, pid, rid) ==
  IF f.raises THEN <<>>
  ELSE IF Truthy(f.text) THEN <<Segment(f.text, f.confidence, pid, rid)>> ELSE <<>>

(* ---------------- the handler ---------------- *)

\* lines 36-40
Init ==
  /\ pc = "init"
  /\ recognizer = <<>>
  /\ participant_identity = "unknown"
  /\ room_id = "unknown"
  /\ exc = "none"
  /\ frames = <<>>
  /\ engine = <<>>
  /\ sent = <<>>
  /\ closes = 0
  /\ init_message = <<>>
  /\ creations = <<>>

\* variant: a sample rate int() rejects is passed over
HandshakeRaisesLenient(message, created) ==
  LET payload == JsonLoads(message.text) IN
    IF Classify(message) = "disconnect" THEN "WebSocketDisconnect"
    ELSE IF Classify(message) # "text" THEN "KeyError"
    ELSE IF ~payload.ok THEN "JSONDecodeError"
    ELSE IF payload.kind # "dict" THEN "AttributeError"
    ELSE IF ~created THEN "EngineError"
    ELSE "none"

\* lines 43-50: the exception the handshake raises on this first message, or
\* "none".  created is whether KaldiRecognizer accepts the sample rate.
HandshakeRaises(message, created) ==
  LET payload == JsonLoads(message.text) IN
    IF Classify(message) = "disconnect" THEN "WebSocketDisconnect"
    ELSE IF Classify(message) # "text" THEN "KeyError"
    ELSE IF ~payload.ok THEN "JSONDecodeError"
    ELSE IF payload.kind # "dict" THEN "AttributeError"
    ELSE IF ~SampleRateOf(payload).ok THEN "ValueError"
    ELSE IF ~created THEN "EngineError"
    ELSE "none"

\* variant: an engine failure is swallowed inside the loop
HandlerRetry(e) ==
  IF e = "WebSocketDisconnect" THEN "finally"
  ELSE IF e = "EngineError" THEN "loop"
  ELSE "except"

\* variant: a disconnect is handled like any other exception
HandlerAll(e) == "except"

\* where an exception raised inside the try block lands (lines 111-113)
Handler(e) == IF e = "WebSocketDisconnect" THEN "finally" ELSE "except"

Handshake ==
  /\ pc = "init"
  /\ \E message \in HandshakeFrames, created \in BOOLEAN :
       LET e == HandshakeRaises(message, created)
           payload == JsonLoads(message.text)
           labelled == e \in {"none", "EngineError"}
       IN
         /\ participant_identity' =
              IF labelled THEN Get(payload, "participantIdentity", participant_identity)
              ELSE participant_identity
         /\ room_id' = IF labelled THEN Get(payload, "roomId", room_id) ELSE room_id
         /\ recognizer' =
              IF e = "none" THEN <<SampleRateOf(payload).n>>
              ELSE recognizer
         /\ pc' = IF e = "none" THEN "loop" ELSE Handler(e)
         /\ exc' = IF e \in {"none", "WebSocketDisconnect"} THEN exc ELSE e
         /\ init_message' = <<message>>
         /\ creations' =
              IF labelled
                THEN Append(creations, [sample_rate |-> SampleRateOf(payload).n,
                                        ok |-> (e = "none")])
                ELSE creations
  /\ UNCHANGED <<frames, engine, sent, closes>>

\* lines 53-56
RecvDisconnect ==
  /\ pc = "loop"
  /\ Len(frames) < MaxFrames
  /\ \E message \in StreamFrames :
       /\ Classify(message) = "disconnect"
       /\ frames' = Append(frames, message)
  /\ pc' = "finally"
  /\ UNCHANGED <<recognizer, participant_identity, room_id, exc, engine, sent, closes>>
  /\ UNCHANGED <<init_message, creations>>

\* lines 53, 58-66
RecvText ==
  /\ pc = "loop"
  /\ Len(frames) < MaxFrames
  /\ \E message \in StreamFrames :
       /\ Classify(message) = "text"
       /\ frames' = Append(frames, message)
       /\ LET step == TextStep(message.text) IN
            /\ pc' = CASE step = "continue" -> "loop"
                       [] step = "break" -> "finally"
                       [] OTHER -> Handler(step)
            /\ exc' = IF step \in {"continue", "break"} THEN exc ELSE step
  /\ UNCHANGED <<recognizer, participant_identity, room_id, engine, sent, closes>>
  /\ UNCHANGED <<init_message, creations>>

\* lines 53, 68-70
RecvNoPayload ==
  /\ pc = "loop"
  /\ Len(frames) < MaxFrames
  /\ \E message \in StreamFrames :
       /\ Classify(message) = "none"
       /\ frames' = Append(frames, message)
  /\ UNCHANGED <<pc, recognizer, participant_identity, room_id, exc, engine, sent, closes>>
  /\ UNCHANGED <<init_message, creations>>

\* lines 53, 68-110
RecvAudio ==
  /\ pc = "loop"
  /\ Len(frames) < MaxFrames
  /\ \E message \in StreamFrames, o \in FeedOutcomes, s \in SendOutcomes :
       LET events == ChunkEvents(o, participant_identity, room_id) IN
         /\ Classify(message) = "audio"
         /\ frames' = Append(frames, message)
         /\ engine' = engine \o FeedCalls(message.bytes, o, Len(frames) + 1)
         /\ IF o.raises # "none"
              THEN /\ pc' = Handler("EngineError")
                   /\ exc' = "EngineError"
                   /\ sent' = sent
              ELSE IF events = <<>>
                THEN UNCHANGED <<pc, exc, sent>>
                ELSE /\ sent' = Emit(sent, SendRec(events[1], s, Len(frames) + 1, Len(engine'), "loop"))
                     /\ pc' = IF s = "ok" THEN "loop" ELSE Handler(s)
                     /\ exc' = IF s \in {"ok", "WebSocketDisconnect"} THEN exc ELSE s
  /\ UNCHANGED <<recognizer, participant_identity, room_id, closes>>
  /\ UNCHANGED <<init_message, creations>>

\* the events the exception handler asks the transport to send (line 115)
ErrorEvents(e) == <<Error(e)>>

\* variant: after the error send the handler goes back to the loop
ExceptResume ==
  /\ pc = "except"
  /\ \E s \in SendOutcomes :
       LET events == ErrorEvents(exc) IN
         sent' = Emit(sent, SendRec(events[1], s, Len(frames), Len(engine), "except"))
  /\ pc' = IF recognizer = <<>> THEN "finally" ELSE "loop"
  /\ exc' = "none"
  /\ UNCHANGED <<recognizer, participant_identity, room_id, frames, engine, closes>>
  /\ UNCHANGED <<init_message, creations>>

\* lines 113-117: the send is attempted once and its failure is swallowed
Except ==
  /\ pc = "except"
  /\ \E s \in SendOutcomes :
       LET events == ErrorEvents(exc) IN
         sent' = Emit(sent, SendRec(events[1], s, Len(frames), Len(engine), "except"))
  /\ pc' = "finally"
  /\ exc' = "none"
  /\ UNCHANGED <<recognizer, participant_identity, room_id, frames, engine, closes>>
  /\ UNCHANGED <<init_message, creations>>

\* lines 118-131: an exception of FinalResult or of the send leaves the
\* finally block, and with it the handler, before the close
Finally ==
  /\ pc = "finally"
  /\ IF recognizer = <<>>
       THEN /\ pc' = "close"
            /\ UNCHANGED <<exc, engine, sent>>
       ELSE \E f \in FlushOutcomes, s \in SendOutcomes :
              LET events == FlushEvents(f, participant_identity, room_id) IN
                /\ engine' = Append(engine, EngineRec("FinalResult", NoneVal, ~f.raises,
                                                      f.text, Len(frames)))
                /\ IF f.raises
                     THEN /\ pc' = "raised"
                          /\ exc' = "EngineError"
                          /\ sent' = sent
                     ELSE IF events = <<>>
                       THEN /\ pc' = "close"
                            /\ UNCHANGED <<exc, sent>>
                       ELSE /\ sent' = Emit(sent, SendRec(events[1], s, Len(frames), Len(engine'), "finally"))
                            /\ pc' = IF s = "ok" THEN "close" ELSE "raised"
                            /\ exc' = IF s = "ok" THEN exc ELSE s
  /\ UNCHANGED <<recognizer, participant_identity, room_id, frames, closes>>
  /\ UNCHANGED <<init_message, creations>>

\* lines 132-135: the close is attempted and its failure is swallowed
Close ==
  /\ pc = "close"
  /\ \E s \in SendOutcomes : closes' = closes + 1
  /\ pc' = "done"
  /\ UNCHANGED <<recognizer, participant_identity, room_id, exc, frames, engine, sent>>
  /\ UNCHANGED <<init_message, creations>>

Next ==
  \/ Handshake
  \/ RecvDisconnect
  \/ RecvText
  \/ RecvNoPayload
  \/ RecvAudio
  \/ Except
  \/ Finally
  \/ Close

Spec == Init /\ [][Next]_vars

TypeOK ==
  /\ pc \in {"init", "loop", "except", "finally", "close", "done", "raised"}
  /\ Len(recognizer) <= 1
  /\ Len(frames) <= MaxFrames
  /\ closes \in 0..1
  /\ Len(init_message) <= 1
  /\ Len(creations) <= 1

(* ---------------- vocabulary of the properties ---------------- *)

Terminated == pc \in {"done", "raised"}
Flushed == pc \in {"close", "done", "raised"}

IsText(message) == message.type = "websocket.receive" /\ message.text # NoneVal
IsAudio(message) ==
  message.type = "websocket.receive" /\ message.text = NoneVal /\ message.bytes # NoneVal
IsStop(message) == IsText(message) /\ message.text = "{\"type\":\"stop\"}"
IsMalformed(message) == IsText(message) /\ ~JsonLoads(message.text).ok

StopIndexes == {i \in 1..Len(frames) : IsStop(frames[i])}
StopProcessed == StopIndexes # {}
NoReadAfterStop == \A i \in StopIndexes : i = Len(frames)

FlushCalls == {j \in 1..Len(engine) : engine[j].op = "FinalResult"}
FailedCalls == {j \in 1..Len(engine) : ~engine[j].ok}
ErrorSends == {k \in 1..Len(sent) : sent[k].msg.type = "error"}
FinalSends == {k \in 1..Len(sent) : sent[k].phase = "finally"}

\* the send_json calls made once frame i had been read
SentFrom(i) == SelectSeq(sent, LAMBDA r : r.at >= i)
\* the send_json calls the streaming loop made for frame i
SentFor(i) == SelectSeq(sent, LAMBDA r : r.at = i /\ r.phase = "loop")

(* ---------------- C1 ---------------- *)

\* C1: once a stop frame is processed no further frame is read, and the
\* handler ends only in Closed: the recognizer flushed and the transport
\* close attempted, whatever the flush and the final send did.
C1_StopReachesClosed ==
  /\ NoReadAfterStop
  /\ (StopProcessed /\ Terminated) =>
       (pc = "done" /\ Cardinality(FlushCalls) = 1 /\ closes = 1)

(* ---------------- C2 ---------------- *)

FlushText == {engine[j].ret : j \in {n \in FlushCalls : engine[n].ok}}

\* C2: after a processed stop, with every later write accepted, exactly one
\* event is sent after the stop, a Segment carrying the flushed text, iff that
\* text is non-empty; otherwise nothing is sent after the stop.
C2_FinalSegmentIffFlushText ==
  \A i \in StopIndexes :
    (Flushed /\ \A k \in 1..Len(sent) : sent[k].at >= i => sent[k].delivered) =>
      IF \E t \in FlushText : Truthy(t)
        THEN /\ Len(SentFrom(i)) = 1
             /\ SentFrom(i)[1].msg.type = "segment"
             /\ SentFrom(i)[1].msg.text \in FlushText
        ELSE SentFrom(i) = <<>>

C2_Witness ==
  /\ StopProcessed /\ pc = "done"
  /\ \E k \in FinalSends : sent[k].delivered /\ sent[k].msg.text = "done"

(* ---------------- C3 ---------------- *)

\* C3: a failure of the final Segment send is swallowed: the handler does not
\* end with an exception and the close is still attempted.
C3_FinalSendFailureSwallowed ==
  (\E k \in FinalSends : ~sent[k].delivered) =>
     /\ pc # "raised"
     /\ (pc = "done" => closes = 1)

(* ---------------- C4 ---------------- *)

\* C4: FinalResult is called exactly once when a recognizer exists, and only
\* at termination; close is attempted at most once; nothing is read after the
\* first processed stop.
C4_FlushOnceCloseOnce ==
  /\ Cardinality(FlushCalls) <= 1
  /\ closes <= 1
  /\ (recognizer # <<>> /\ Flushed) => Cardinality(FlushCalls) = 1
  /\ ~Flushed => FlushCalls = {}
  /\ \A j \in FlushCalls : j = Len(engine)
  /\ NoReadAfterStop

C4_Witness ==
  /\ StopProcessed /\ pc = "done"
  /\ Cardinality(FlushCalls) = 1 /\ closes = 1
  /\ Len(frames) >= 2

(* ---------------- C5 ---------------- *)

AudioIndexes == {i \in 1..Len(frames) : IsAudio(frames[i])}

\* the engine calls of method op that returned while frame i was processed
Returned(i, op) ==
  {j \in 1..Len(engine) : engine[j].at = i /\ engine[j].op = op /\ engine[j].ok}

CountOf(seq, type) == Len(SelectSeq(seq, LAMBDA r : r.msg.type = type))

\* C5: the loop sends at most one event per audio chunk: a chunk that does not
\* complete an utterance gives no Segment and one Partial iff the partial text
\* is non-empty; a chunk that completes one gives no Partial and one Segment
\* iff the final text is non-empty; the event carries that text.
C5_OneEventPerChunk ==
  \A i \in AudioIndexes :
    LET evs == SentFor(i)
        complete == \E j \in Returned(i, "AcceptWaveform") : engine[j].ret = "True"
        inProgress == \E j \in Returned(i, "AcceptWaveform") : engine[j].ret = "False"
        finalText == {engine[j].ret : j \in Returned(i, "Result")}
        partialText == {engine[j].ret : j \in Returned(i, "PartialResult")}
    IN /\ Len(evs) <= 1
       /\ \A k \in 1..Len(evs) : evs[k].msg.type \in {"segment", "partial"}
       /\ inProgress =>
            /\ CountOf(evs, "segment") = 0
            /\ CountOf(evs, "partial") = 1 <=> \E t \in partialText : Truthy(t)
            /\ \A k \in 1..Len(evs) : evs[k].msg.text \in partialText
       /\ complete =>
            /\ CountOf(evs, "partial") = 0
            /\ CountOf(evs, "segment") = 1 <=> \E t \in finalText : Truthy(t)
            /\ \A k \in 1..Len(evs) : evs[k].msg.text \in finalText

C5_Witness ==
  \E i, j \in AudioIndexes :
    /\ CountOf(SentFor(i), "segment") = 1
    /\ CountOf(SentFor(j), "partial") = 1
    /\ \E n \in AudioIndexes : SentFor(n) = <<>> /\ Returned(n, "PartialResult") # {}

(* ---------------- C6 ---------------- *)

\* the engine results that call for an event, in the order obtained
Productive ==
  SelectSeq(engine, LAMBDA c : /\ c.op \in {"Result", "PartialResult", "FinalResult"}
                               /\ c.ok /\ Truthy(c.ret))
\* the transcript events handed to the transport, in the order handed
Transcript == SelectSeq(sent, LAMBDA r : r.msg.type # "error")

\* C6: the events handed to the transport are, one for one and in order, the
\* non-empty results of the frames processed; each is sent right after its
\* result is obtained, before any later engine call; the flush Segment is last.
C6_EventsInProcessingOrder ==
  /\ Len(Transcript) = Len(Productive)
  /\ \A k \in 1..Len(Transcript) :
       /\ Transcript[k].msg.text = Productive[k].ret
       /\ Transcript[k].msg.type =
            (IF Productive[k].op = "PartialResult" THEN "partial" ELSE "segment")
       /\ Transcript[k].at = Productive[k].at
       /\ Transcript[k].calls \in 1..Len(engine)
       /\ engine[Transcript[k].calls] = Productive[k]
  /\ \A k, l \in 1..Len(sent) :
       k < l => /\ sent[k].at <= sent[l].at
                /\ sent[k].calls <= sent[l].calls
                /\ sent[k].phase # "finally"

C6_Witness ==
  /\ pc = "done"
  /\ Len(sent) = 3
  /\ sent[1].phase = "loop" /\ sent[2].phase = "loop" /\ sent[3].phase = "finally"
  /\ sent[1].at < sent[2].at
  /\ \A k \in 1..3 : sent[k].delivered

(* ---------------- C7 ---------------- *)

\* C7: a text frame that is not parseable as JSON triggers no send at all and
\* leaves the handler in the streaming loop, ready to read the next frame.
C7_MalformedControlIgnored ==
  \A i \in 1..Len(frames) :
    IsMalformed(frames[i]) =>
      /\ \A k \in 1..Len(sent) : sent[k].at # i
      /\ i = Len(frames) => pc = "loop"

C7_Witness ==
  \E i \in 1..Len(frames) : IsMalformed(frames[i]) /\ i < Len(frames)

(* ---------------- C8 ---------------- *)

IsOtherJson(message) ==
  /\ IsText(message)
  /\ JsonLoads(message.text).ok
  /\ ~IsStop(message)

\* C8: a text frame that parses as JSON and is not a stop request, object or
\* not, triggers no send and leaves the handler in the streaming loop.
C8_OtherJsonIgnored ==
  \A i \in 1..Len(frames) :
    IsOtherJson(frames[i]) =>
      /\ \A k \in ErrorSends : sent[k].at # i
      /\ i = Len(frames) => pc = "loop"

(* ---------------- C9 ---------------- *)

\* C9: when an engine call raised, the handler ends in Closed, with an
\* error send attempted, the close attempted and no chunk fed after the failure.
C9_EngineFailureReported ==
  (FailedCalls # {} /\ Terminated) =>
     /\ ErrorSends # {}
     /\ pc = "done" /\ closes = 1
     /\ \A j \in FailedCalls : \A n \in 1..Len(engine) :
          n > j => engine[n].op # "AcceptWaveform"

(* ---------------- C10 ---------------- *)

\* C10: at most one error send in a session, and after an engine call that
\* raised, that method is not called again and no further chunk is fed.
C10_OneErrorNoRetry ==
  /\ Cardinality(ErrorSends) <= 1
  /\ \A j \in FailedCalls : \A n \in 1..Len(engine) :
       n > j => /\ engine[n].op # engine[j].op
                /\ engine[n].op = "FinalResult"

C10_Witness ==
  /\ pc = "done"
  /\ Cardinality(ErrorSends) = 1
  /\ \E j \in FailedCalls : engine[j].op = "AcceptWaveform" /\ j < Len(engine)

(* ---------------- C11 ---------------- *)

HandshakeDone == init_message # <<>>
InitPayload == JsonLoads(init_message[1].text)

\* the first frame is text holding a JSON object
ObjectHandshake ==
  /\ HandshakeDone
  /\ IsText(init_message[1])
  /\ InitPayload.ok /\ InitPayload.kind = "dict"

\* C11: after a handshake that is a JSON object (the engine not refusing the
\* recognizer), exactly one recognizer exists, created with the handshake's
\* sampleRate or 16000 when omitted, the labels are the handshake's or
\* "unknown" when omitted, and the session is in the streaming loop.
C11_ValidHandshakeStreams ==
  (ObjectHandshake /\ \A c \in 1..Len(creations) : creations[c].ok) =>
     /\ Len(creations) = 1
     /\ recognizer = <<creations[1].sample_rate>>
     /\ creations[1].sample_rate =
          (IF InitPayload.sampleRate = NoneVal THEN 16000
           ELSE IntOf(InitPayload.sampleRate).n)
     /\ participant_identity =
          (IF InitPayload.participantIdentity = NoneVal THEN "unknown"
           ELSE InitPayload.participantIdentity)
     /\ room_id = (IF InitPayload.roomId = NoneVal THEN "unknown" ELSE InitPayload.roomId)
     /\ frames = <<>> => pc = "loop"

(* ---------------- C12 ---------------- *)

DisconnectIndexes == {i \in 1..Len(frames) : frames[i].type = "websocket.disconnect"}
DisconnectAtHandshake == HandshakeDone /\ init_message[1].type = "websocket.disconnect"

\* C12: when the client disconnects, at the handshake or in the streaming
\* loop, no error event send is attempted.
C12_DisconnectNotAnError ==
  (DisconnectAtHandshake \/ DisconnectIndexes # {}) => ErrorSends = {}

C12_Witness ==
  /\ pc = "done"
  /\ DisconnectIndexes # {}
  /\ Len(sent) >= 2

(* ---------------- C13 ---------------- *)

\* C13 (as claimed): once a disconnect is read in the streaming loop, no
\* send is attempted on the transport.
C13_NoSendAfterDisconnect ==
  \A i \in DisconnectIndexes : SentFrom(i) = <<>>

\* C13 (amended): once a disconnect is read in the streaming loop, no further
\* frame is read and no error or Partial send is attempted; after the flush,
\* one final Segment send has been attempted iff the flush returned a
\* non-empty text, and otherwise none.
C13_DisconnectFlushesOnce ==
  \A i \in DisconnectIndexes :
    /\ i = Len(frames)
    /\ Len(SentFrom(i)) <= 1
    /\ \A k \in 1..Len(sent) :
         sent[k].at >= i => /\ sent[k].phase = "finally"
                            /\ sent[k].msg.type = "segment"
                            /\ sent[k].msg.text \in FlushText
    /\ ~Flushed => SentFrom(i) = <<>>
    /\ Flushed => (Len(SentFrom(i)) = 1 <=> \E t \in FlushText : Truthy(t))

C13_Witness ==
  \E i \in DisconnectIndexes :
    /\ Len(SentFrom(i)) = 1
    /\ SentFrom(i)[1].msg.text = "done"
    /\ i > 1

(* ---------------- C14 ---------------- *)

AwaitingInit == pc = "init"
Streaming == pc = "loop"
Terminating == pc \in {"except", "finally"}
Closed == pc \in {"close", "done", "raised"}

\* the handshake ran to the end: a JSON object, a sample rate that int()
\* accepts, and a recognizer the engine built
HandshakeSucceeded ==
  /\ ObjectHandshake
  /\ InitPayload.sampleRate \in {NoneVal, "8000", "0"}
  /\ Len(creations) = 1 /\ creations[1].ok

\* C14 (as claimed): a recognizer handle exists iff the session is in
\* Streaming or Terminating, and at most one is ever created.
C14_HandleIffStreamingOrTerminating ==
  /\ recognizer # <<>> <=> (Streaming \/ Terminating)
  /\ Len(creations) <= 1

\* C14 (amended): no handle exists in AwaitingInit, one exists throughout
\* Streaming, in Terminating one exists iff the handshake succeeded (none
\* when Terminating is entered by a handshake error), and at most one
\* recognizer is ever created.
C14_HandleFromHandshake ==
  /\ AwaitingInit => recognizer = <<>>
  /\ Streaming => recognizer # <<>>
  /\ Terminating => (recognizer # <<>> <=> HandshakeSucceeded)
  /\ Len(recognizer) <= 1
  /\ Len(creations) <= 1

C14_Witness ==
  /\ pc = "finally"
  /\ recognizer = <<>>
  /\ ErrorSends # {}
  /\ ~DisconnectAtHandshake

(* ---------------- C15 ---------------- *)

\* the handshake is a JSON object whose sampleRate is present and not
\* coercible to an integer
InvalidSampleRate ==
  /\ ObjectHandshake
  /\ InitPayload.sampleRate \in {"'abc'", "null"}

\* C15: after a handshake with an invalid sampleRate (the engine not refusing
\* the recognizer) a recognizer created with 16000 exists and the session is
\* in the streaming loop.
C15_InvalidSampleRateFallsBack ==
  (InvalidSampleRate /\ \A c \in 1..Len(creations) : creations[c].ok) =>
     /\ recognizer = <<16000>>
     /\ frames = <<>> => pc = "loop"

(* ---------------- C16 ---------------- *)

\* C16: every recognizer the engine builds is created with a sample rate
\* greater than zero, and the session's recognizer keeps that rate.
C16_SampleRatePositive ==
  /\ \A c \in 1..Len(creations) : creations[c].ok => creations[c].sample_rate > 0
  /\ \A n \in 1..Len(recognizer) :
       recognizer[n] > 0 /\ recognizer[n] = creations[1].sample_rate

(* ---------------- C17 ---------------- *)

LoopSendFailures == {k \in 1..Len(sent) : sent[k].phase = "loop" /\ ~sent[k].delivered}

\* C17: after a send failure in the streaming loop no further frame is read,
\* an error event send is attempted before the flush, and the handler ends in
\* Closed with the recognizer flushed and the close attempted.
C17_LoopSendFailureEndsSession ==
  \A k \in LoopSendFailures :
    /\ sent[k].at = Len(frames)
    /\ pc # "loop"
    /\ pc # "except" => \E e \in ErrorSends : e = k + 1
    /\ Terminated => (pc = "done" /\ Cardinality(FlushCalls) = 1 /\ closes = 1)

(* ---------------- C18 ---------------- *)

\* the payloads of the binary frames read, and the arguments of the
\* AcceptWaveform calls made, each with the index of its frame, in order
PayloadsRead ==
  [n \in 1..Len(SelectSeq(frames, IsAudio)) |-> SelectSeq(frames, IsAudio)[n].bytes]
FeedCallsMade == SelectSeq(engine, LAMBDA c : c.op = "AcceptWaveform")
PayloadsFed == [n \in 1..Len(FeedCallsMade) |-> FeedCallsMade[n].arg]

HandshakeFailed ==
  /\ HandshakeDone
  /\ \/ ~IsText(init_message[1])
     \/ ~InitPayload.ok
     \/ InitPayload.kind # "dict"
     \/ InitPayload.sampleRate \in {"'abc'", "null"}

\* C19: after a failed handshake no recognizer is created, no engine call and
\* no Segment or Partial send is made, no frame is read, and the handler ends
\* by attempting the close.
C19_FailedHandshakeNoRecognizer ==
  HandshakeFailed =>
    /\ recognizer = <<>> /\ creations = <<>>
    /\ engine = <<>> /\ frames = <<>>
    /\ \A k \in 1..Len(sent) : sent[k].msg.type = "error"
    /\ pc \in {"except", "finally", "close", "done"}
    /\ pc = "done" => closes = 1

C19_Witness ==
  /\ HandshakeFailed
  /\ InitPayload.sampleRate = "null"
  /\ pc = "done" /\ closes = 1

(* ---------------- C20 ---------------- *)

\* C20: after an error event send, no Partial send is made and at most one
\* more send follows, the Segment of the final flush.
C20_AfterErrorOnlyFinalSegment ==
  \A k \in ErrorSends :
    /\ Len(sent) <= k + 1
    /\ \A l \in 1..Len(sent) :
         l > k => /\ sent[l].msg.type = "segment"
                  /\ sent[l].phase = "finally"

C20_Witness ==
  \E k \in ErrorSends :
    /\ sent[k].delivered
    /\ Len(sent) = k + 1
    /\ sent[k + 1].msg.type = "segment"
    /\ k > 1

====
